---- MODULE Spec2Model ----
(***************************************************************************)
(* State-machine model of sngrep's RTP dissector, src/parser/packet_rtp.c: *)
(* the encodings table and its lookup, packet_rtp_parse (dissect) and      *)
(* packet_rtp_free (release), together with the heap objects they create,  *)
(* the reference-counted GByteArray they share with the caller, the        *)
(* per-packet protocol slot and the storage delivery.                      *)
(***************************************************************************)
EXTENDS Integers, Sequences, FiniteSets, TLC

VARIABLES
    hostLE,         \* build: TRUE on a little-endian host (G_BYTE_ORDER)
    fatalCriticals, \* environment: GLib makes g_critical fatal (G_DEBUG=fatal-criticals)
    bufs,           \* packet -> its GByteArray: [bytes, refs, freed]
    held,           \* packet -> the caller (capture layer / chain) still holds its reference
    proto,          \* packet -> packet->proto[PACKET_RTP]: 0 (NULL) or an address in rtpHeap
    rtpHeap,        \* the PacketRtpData objects g_malloc0'ed so far
    encHeap,        \* the PacketRtpEncoding objects g_malloc0'ed so far
    staticFreed,    \* indexes of encodings[] entries that were handed to g_free
    delivered,      \* what storage_add_packet saw, one snapshot per call
    aborted,        \* the process has ended in a fatal error
    ub,             \* freed memory has been read or freed again
    ev              \* the last call: which operation, on which packet, input and result

vars == <<hostLE, fatalCriticals, bufs, held, proto, rtpHeap, encHeap,
          staticFreed, delivered, aborted, ub, ev>>

----------------------------------------------------------------------------
(* Bounds of the model *)

NPackets == 2
MaxPayload == 1

Packets == 1..NPackets

----------------------------------------------------------------------------
(* Constants of the program *)

NULL == 0
NULLSTR == "(null)"

\* sizeof(PacketRtpHdr): the fixed RTP header
SizeofPacketRtpHdr == 12
\* the literal count of g_byte_array_remove_range(data, 0, 12)
RemovedLen == 12
RTP_VERSION_RFC1889 == 2
PtLow == 64
PtHigh == 96

\* enum of packet_rtp.h (RFC 3551 static payload types)
RTP_PT_PCMU == 0
RTP_PT_GSM == 3
RTP_PT_G723 == 4
RTP_PT_DVI4_8000 == 5
RTP_PT_DVI4_16000 == 6
RTP_PT_LPC == 7
RTP_PT_PCMA == 8
RTP_PT_G722 == 9
RTP_PT_L16_STEREO == 10
RTP_PT_L16_MONO == 11
RTP_PT_QCELP == 12
RTP_PT_CN == 13
RTP_PT_MPA == 14
RTP_PT_G728 == 15
RTP_PT_DVI4_11025 == 16
RTP_PT_DVI4_22050 == 17
RTP_PT_G729 == 18
RTP_PT_CELB == 25
RTP_PT_JPEG == 26
RTP_PT_NV == 28
RTP_PT_H261 == 31
RTP_PT_MPV == 32
RTP_PT_MP2T == 33
RTP_PT_H263 == 34

Enc(i, n, f, c) == [id |-> i, name |-> n, format |-> f, clock |-> c]

encodings == <<
    Enc(RTP_PT_PCMU,       "PCMU/8000",  "g711u", 8000),
    Enc(RTP_PT_GSM,        "GSM/8000",   "gsm",   8000),
    Enc(RTP_PT_G723,       "G723/8000",  "g723",  8000),
    Enc(RTP_PT_DVI4_8000,  "DVI4/8000",  "dvi",   8000),
    Enc(RTP_PT_DVI4_16000, "DVI4/16000", "dvi",   16000),
    Enc(RTP_PT_LPC,        "LPC/8000",   "lpc",   8000),
    Enc(RTP_PT_PCMA,       "PCMA/8000",  "g711a", 8000),
    Enc(RTP_PT_G722,       "G722/8000",  "g722",  8000),
    Enc(RTP_PT_L16_STEREO, "L16/44100",  "l16",   44100),
    Enc(RTP_PT_L16_MONO,   "L16/44100",  "l16",   44100),
    Enc(RTP_PT_QCELP,      "QCELP/8000", "qcelp", 8000),
    Enc(RTP_PT_CN,         "CN/8000",    "cn",    8000),
    Enc(RTP_PT_MPA,        "MPA/90000",  "mpa",   8000),
    Enc(RTP_PT_G728,       "G728/8000",  "g728",  8000),
    Enc(RTP_PT_DVI4_11025, "DVI4/11025", "dvi",   11025),
    Enc(RTP_PT_DVI4_22050, "DVI4/22050", "dvi",   22050),
    Enc(RTP_PT_G729,       "G729/8000",  "g729",  8000),
    Enc(RTP_PT_CELB,       "CelB/90000", "celb",  90000),
    Enc(RTP_PT_JPEG,       "JPEG/90000", "jpeg",  90000),
    Enc(RTP_PT_NV,         "nv/90000",   "nv",    90000),
    Enc(RTP_PT_H261,       "H261/90000", "h261",  90000),
    Enc(RTP_PT_MPV,        "MPV/90000",  "mpv",   90000),
    Enc(RTP_PT_MP2T,       "MP2T/90000", "mp2t",  90000),
    Enc(RTP_PT_H263,       "H263/90000", "h263",  90000),
    Enc(0, NULLSTR, NULLSTR, 0) >>

----------------------------------------------------------------------------
(* Header fields *)

\* Version is the first 2 bits of the first octet
RTP_VERSION(octet) == octet \div 64

\* Payload type is the last 7 bits
RTP_PAYLOAD_TYPE(octet) == octet % 128

\* hdr->version and hdr->pt of the PacketRtpHdr overlaid on data->data: the
\* bit fields the two macros above describe
HdrVersion(data) == RTP_VERSION(data[1])
HdrPt(data) == RTP_PAYLOAD_TYPE(data[2])

\* the 16 and 32 bit header fields as the host loads them from memory; seq, ts
\* and ssrc follow the first two octets (RFC 3550 fixed header)
LoadU16(data, at) ==
    IF hostLE THEN data[at] + 256 * data[at + 1]
              ELSE 256 * data[at] + data[at + 1]

\* a guint32 is kept as its two 16 bit halves, value = hi * 65536 + lo
U32(hi, lo) == [hi |-> hi, lo |-> lo]

LoadU32(data, at) ==
    IF hostLE
    THEN U32(data[at + 2] + 256 * data[at + 3], data[at] + 256 * data[at + 1])
    ELSE U32(256 * data[at] + data[at + 1], 256 * data[at + 2] + data[at + 3])

HdrSeq(data) == LoadU16(data, 3)
HdrTs(data) == LoadU32(data, 5)
HdrSsrc(data) == LoadU32(data, 9)

Swap16(x) == (x % 256) * 256 + (x \div 256)

Swap32(x) == U32(Swap16(x.lo), Swap16(x.hi))

\* variant: the conversion left out
g_ntohs_host(x) == x

g_ntohs(x) == IF hostLE THEN Swap16(x) ELSE x

g_ntohl(x) == IF hostLE THEN Swap32(x) ELSE x

----------------------------------------------------------------------------
(* packet_rtp_standard_codec: index of the entry in encodings, or NULL *)

\* variant: the loop ends on an id of 0 instead of a NULL format
RECURSIVE CodecLoopById(_, _)
CodecLoopById(i, code) ==
    IF encodings[i].id = 0 THEN NULL
    ELSE IF encodings[i].id = code THEN i
    ELSE CodecLoopById(i + 1, code)

RECURSIVE CodecLoop(_, _)
CodecLoop(i, code) ==
    IF encodings[i].format = NULLSTR THEN NULL
    ELSE IF encodings[i].id = code THEN i
    ELSE CodecLoop(i + 1, code)

packet_rtp_standard_codec_from_zero(code) == CodecLoopById(1, code)

packet_rtp_standard_codec(code) == CodecLoop(1, code)

----------------------------------------------------------------------------
(* The memory the two operations work on, as one record *)

Mem == [bufs |-> bufs, proto |-> proto, rtpHeap |-> rtpHeap, encHeap |-> encHeap,
        staticFreed |-> staticFreed, delivered |-> delivered,
        aborted |-> aborted, ub |-> ub]

SetMem(m) ==
    /\ bufs' = m.bufs
    /\ proto' = m.proto
    /\ rtpHeap' = m.rtpHeap
    /\ encHeap' = m.encHeap
    /\ staticFreed' = m.staticFreed
    /\ delivered' = m.delivered
    /\ aborted' = m.aborted
    /\ ub' = m.ub

\* a PacketRtpEncoding pointer: into encodings[] (static) or into the heap
StaticPtr(i) == [static |-> TRUE, ix |-> i]
HeapPtr(a) == [static |-> FALSE, ix |-> a]
NullEnc == HeapPtr(NULL)

\* *enc
EncDeref(m, enc) == IF enc.static THEN encodings[enc.ix] ELSE m.encHeap[enc.ix]

\* g_malloc0(sizeof(PacketRtpData)): the new object's address is Len + 1
AllocRtp(m) ==
    [m EXCEPT !.rtpHeap = Append(@, [seq |-> 0, ts |-> U32(0, 0), ssrc |-> U32(0, 0),
                                     encoding |-> NullEnc, payload |-> NULL,
                                     freed |-> 0])]

\* g_malloc0(sizeof(PacketRtpEncoding))
AllocEnc(m) ==
    [m EXCEPT !.encHeap = Append(@, Enc(0, NULLSTR, NULLSTR, 0) @@ [freed |-> 0])]

\* rtp->encoding = packet_rtp_standard_codec(hdr->pt), or a new one with only the id
ResolveCodec(m, rtp, pt) ==
    LET found == packet_rtp_standard_codec(pt)
        a == Len(m.encHeap) + 1
        m1 == AllocEnc(m)
    IN  IF found # NULL
        THEN [m EXCEPT !.rtpHeap[rtp].encoding = StaticPtr(found)]
        ELSE [m1 EXCEPT !.rtpHeap[rtp].encoding = HeapPtr(a),
                        !.encHeap[a].id = pt]

\* rtp->seq, rtp->ts, rtp->ssrc in host byte order
StoreFields(m, rtp, data) ==
    [m EXCEPT !.rtpHeap[rtp].seq = g_ntohs(HdrSeq(data)),
              !.rtpHeap[rtp].ts = g_ntohl(HdrTs(data)),
              !.rtpHeap[rtp].ssrc = g_ntohl(HdrSsrc(data))]

\* g_byte_array_remove_range(array, index, length)
g_byte_array_remove_range(bytes, index, length) ==
    SubSeq(bytes, 1, index) \o SubSeq(bytes, index + length + 1, Len(bytes))

\* variant: one byte too few removed
RemoveHeaderShort(m, p) ==
    [m EXCEPT !.bufs[p].bytes = g_byte_array_remove_range(@, 0, RemovedLen - 1)]

RemoveHeader(m, p) ==
    [m EXCEPT !.bufs[p].bytes = g_byte_array_remove_range(@, 0, RemovedLen)]

\* rtp->payload = g_byte_array_ref(data)
\* variant: the buffer stored without taking a reference
RefPayloadCopy(m, rtp, p) ==
    [m EXCEPT !.rtpHeap[rtp].payload = p]

RefPayload(m, rtp, p) ==
    [m EXCEPT !.bufs[p].refs = @ + 1, !.rtpHeap[rtp].payload = p]

\* g_byte_array_unref(array): the last reference deallocates
g_byte_array_unref(m, b) ==
    IF m.bufs[b].freed
    THEN [m EXCEPT !.ub = TRUE]
    ELSE [m EXCEPT !.bufs[b].refs = @ - 1, !.bufs[b].freed = (m.bufs[b].refs = 1)]

\* packet_add_type(packet, PACKET_RTP, rtp), as g_ptr_array_set does it
packet_add_type_overwrite(m, p, rtp) ==
    [m EXCEPT !.proto[p] = rtp]

\* packet_add_type(packet, PACKET_RTP, rtp): fatal when the slot is taken
packet_add_type(m, p, rtp) ==
    IF m.proto[p] # NULL
    THEN [m EXCEPT !.aborted = TRUE]
    ELSE [m EXCEPT !.proto[p] = rtp]

\* what the storage sees of the packet when it is handed over
Snapshot(m, p) ==
    [p |-> p, data |-> m.bufs[p].bytes, rtp |-> m.proto[p],
     payload |-> IF m.proto[p] # NULL THEN m.rtpHeap[m.proto[p]].payload ELSE NULL]

\* storage_add_packet(packet)
storage_add_packet(m, p) ==
    IF m.aborted THEN m
    ELSE [m EXCEPT !.delivered = Append(@, Snapshot(m, p))]

----------------------------------------------------------------------------
(* packet_rtp_parse *)

\* variant: the upper band starting one code early
PayloadTypeValidFrom95(pt) == pt <= PtLow \/ pt >= PtHigh - 1

\* Validate RTP payload type
PayloadTypeValid(pt) == pt <= PtLow \/ pt >= PtHigh

\* the three guards: enough data, version 2, payload type outside 65..95
Claims(data) ==
    /\ ~(Len(data) < SizeofPacketRtpHdr)
    /\ HdrVersion(data) = RTP_VERSION_RFC1889
    /\ PayloadTypeValid(HdrPt(data))

\* the same statements with the delivery moved before the attachment
ParseClaimedDeliverFirst(m, p) ==
    LET data == m.bufs[p].bytes
        rtp == Len(m.rtpHeap) + 1
        m1 == AllocRtp(m)
        m2 == ResolveCodec(m1, rtp, HdrPt(data))
        m3 == StoreFields(m2, rtp, data)
        m4 == RemoveHeader(m3, p)
        m5 == storage_add_packet(m4, p)
        m6 == RefPayload(m5, rtp, p)
    IN  packet_add_type(m6, p, rtp)

\* lines 121-147: the statements after the guards, in program order
ParseClaimed(m, p) ==
    LET data == m.bufs[p].bytes
        rtp == Len(m.rtpHeap) + 1
        m1 == AllocRtp(m)
        m2 == ResolveCodec(m1, rtp, HdrPt(data))
        m3 == StoreFields(m2, rtp, data)
        m4 == RemoveHeader(m3, p)
        m5 == RefPayload(m4, rtp, p)
        m6 == packet_add_type(m5, p, rtp)
    IN  storage_add_packet(m6, p)

packet_rtp_parse(m, p) ==
    IF Claims(m.bufs[p].bytes) THEN ParseClaimed(m, p) ELSE m

----------------------------------------------------------------------------
(* packet_rtp_free *)

\* the freed field of a heap object: 0 live, 1 freed, 2 freed more than once
Freed(n) == IF n = 0 THEN 1 ELSE 2

\* g_free(rtp_data->encoding)
g_free_enc(m, enc) ==
    IF enc.static
    THEN [m EXCEPT !.staticFreed = @ \cup {enc.ix}]
    ELSE [m EXCEPT !.encHeap[enc.ix].freed = Freed(@)]

\* variant: the decision taken on the format field instead of the lookup
ReleaseFreesEncodingByFormat(m, enc) ==
    EncDeref(m, enc).format = NULLSTR

\* packet_rtp_standard_codec(rtp_data->encoding->id) == NULL
ReleaseFreesEncoding(m, enc) ==
    packet_rtp_standard_codec(EncDeref(m, enc).id) = NULL

\* lines 157-162 on the object the slot points to
FreeBody(m, p, rtp) ==
    LET enc == m.rtpHeap[rtp].encoding
        m1 == IF ReleaseFreesEncoding(m, enc) THEN g_free_enc(m, enc) ELSE m
        m2 == g_byte_array_unref(m1, m.rtpHeap[rtp].payload)
    IN  [m2 EXCEPT !.rtpHeap[rtp].freed = Freed(@)]

\* g_return_if_fail(rtp_data != NULL): log a critical and return; the log is
\* fatal only when GLib is told so
\* variant: the failed check always ends the process
ReturnIfFailAborts(m) == [m EXCEPT !.aborted = TRUE]

ReturnIfFail(m) == [m EXCEPT !.aborted = fatalCriticals]

\* The slot is never cleared, so after a release it still holds the address of
\* the freed object. A call that finds it reads freed memory: the process
\* crashes (crash), or the memory still holds what it held and the statements
\* run on it again.
packet_rtp_free(m, p, crash) ==
    LET rtp == m.proto[p]
    IN  IF rtp = NULL THEN ReturnIfFail(m)
        ELSE IF m.rtpHeap[rtp].freed > 0
        THEN IF crash
             THEN [m EXCEPT !.ub = TRUE, !.aborted = TRUE]
             ELSE FreeBody([m EXCEPT !.ub = TRUE], p, rtp)
        ELSE FreeBody(m, p, rtp)

----------------------------------------------------------------------------
(* Inputs *)

Hdr(b0, b1, s, t, c) == <<b0, b1>> \o s \o t \o c

\* 80 00 00 01 00 00 00 02 00 00 00 03
ExampleHdr == Hdr(128, 0, <<0, 1>>, <<0, 0, 0, 2>>, <<0, 0, 0, 3>>)

Octets == 0..255
SeqPats == {<<0, 1>>, <<1, 0>>, <<255, 255>>, <<18, 52>>}
WordPats == {<<0, 0, 0, 2>>, <<1, 2, 3, 4>>, <<255, 255, 255, 255>>, <<128, 0, 0, 0>>}

RtpLikePayload == Hdr(128, 100, <<0, 9>>, <<0, 0, 0, 9>>, <<0, 0, 0, 9>>)

\* payloads: a few filler bytes, or bytes that again look like an RTP header
Payloads ==
    { [i \in 1..n |-> 7] : n \in 0..MaxPayload }
    \cup { RtpLikePayload }

DissectFrames ==
    { Hdr(128, b1, <<0, 1>>, <<0, 0, 0, 2>>, <<0, 0, 0, 3>>) : b1 \in Octets }
    \cup { Hdr(b0, b1, <<0, 1>>, <<0, 0, 0, 2>>, <<0, 0, 0, 3>>) :
             b0 \in Octets, b1 \in {0, 100} }
    \cup { Hdr(128, b1, s, t, c) \o pl :
             b1 \in {8, 228}, s \in SeqPats, t \in WordPats, c \in WordPats,
             pl \in Payloads }
    \cup { SubSeq(ExampleHdr \o <<7>>, 1, n) : n \in 0..13 }

\* the frames of the life-cycle runs: a static payload type with a payload that
\* again looks like RTP, and a dynamic payload type with no payload
LifeFrames ==
    { ExampleHdr \o RtpLikePayload,
      Hdr(176, 100, <<1, 0>>, <<1, 2, 3, 4>>, <<128, 0, 0, 0>>) }

----------------------------------------------------------------------------
(* The state machine *)

Event(op, p, din, ret, log) ==
    [op |-> op, p |-> p, din |-> din, ret |-> ret, log |-> log]

NewBuf(f) == [bytes |-> f, refs |-> 1, freed |-> FALSE]

InitRest(hosts, fatals) ==
    /\ hostLE \in hosts
    /\ fatalCriticals \in fatals
    /\ held = [p \in Packets |-> TRUE]
    /\ proto = [p \in Packets |-> NULL]
    /\ rtpHeap = <<>>
    /\ encHeap = <<>>
    /\ staticFreed = {}
    /\ delivered = <<>>
    /\ aborted = FALSE
    /\ ub = FALSE
    /\ ev = Event("init", 0, <<>>, <<>>, "")

\* the life cycle of several Packet Records, on a little-endian host with
\* GLib's default, non-fatal criticals
Init ==
    /\ bufs \in [Packets -> {NewBuf(f) : f \in LifeFrames}]
    /\ InitRest({TRUE}, {FALSE})

\* the chain calls the dissector on a buffer it holds
Parse(p) ==
    /\ ~aborted
    /\ held[p]
    /\ ~bufs[p].freed
    /\ LET m == packet_rtp_parse(Mem, p)
       IN  /\ SetMem(m)
           /\ ev' = Event("parse", p, bufs[p].bytes, m.bufs[p].bytes, "")
    /\ UNCHANGED <<hostLE, fatalCriticals, held>>

\* the dissector's free callback is called for the packet
Release(p) ==
    /\ ~aborted
    /\ \E crash \in BOOLEAN :
         LET m == packet_rtp_free(Mem, p, crash)
         IN  /\ SetMem(m)
             /\ ev' = Event("free", p, <<>>, <<>>,
                            IF proto[p] = NULL THEN "critical" ELSE "")
    /\ UNCHANGED <<hostLE, fatalCriticals, held>>

\* the caller drops its own reference to the buffer
HolderUnref(p) ==
    /\ ~aborted
    /\ held[p]
    /\ held' = [held EXCEPT ![p] = FALSE]
    /\ SetMem(g_byte_array_unref(Mem, p))
    /\ ev' = Event("unref", p, <<>>, <<>>, "")
    /\ UNCHANGED <<hostLE, fatalCriticals>>

\* the signaling side fills in name, format and clock of a dynamic descriptor
Resolve(p) ==
    /\ ~aborted
    /\ proto[p] # NULL
    /\ rtpHeap[proto[p]].freed = 0
    /\ ~rtpHeap[proto[p]].encoding.static
    /\ LET a == rtpHeap[proto[p]].encoding.ix
       IN  /\ encHeap[a].name = NULLSTR
           /\ encHeap' = [encHeap EXCEPT ![a].name = "opus/48000",
                                         ![a].format = "opus",
                                         ![a].clock = 48000]
    /\ ev' = Event("resolve", p, <<>>, <<>>, "")
    /\ UNCHANGED <<hostLE, fatalCriticals, bufs, held, proto, rtpHeap,
                   staticFreed, delivered, aborted, ub>>

Step(p) == Parse(p) \/ Release(p) \/ HolderUnref(p) \/ Resolve(p)

Next == \E p \in Packets : Step(p)

Spec == Init /\ [][Next]_vars

\* one Packet Record, every first and second octet, either byte order, criticals
\* fatal or not
InitDissect ==
    /\ \E f \in DissectFrames :
         bufs = [p \in Packets |-> IF p = 1 THEN NewBuf(f) ELSE NewBuf(<<>>)]
    /\ InitRest(BOOLEAN, BOOLEAN)

NextDissect == Step(1)

SpecDissect == InitDissect /\ [][NextDissect]_vars

----------------------------------------------------------------------------
(* The claims.  ev names the call a step made: ev'.op is the operation of the *)
(* step, ev'.din the buffer it was given and ev'.ret the buffer it returned.  *)

\* the three reasons to decline, read off the octets
Declines(d) ==
    \/ Len(d) < 12
    \/ d[1] \div 64 # 2
    \/ (d[2] % 128) \in 65..95

\* the condition to claim, read off the octets
ClaimedBy(d) ==
    /\ Len(d) >= 12
    /\ d[1] \div 64 = 2
    /\ (d[2] % 128 <= 64 \/ d[2] % 128 >= 96)

\* C1: a declining dissect call (buffer shorter than 12 bytes, or version bits
\* not 2, or payload type in 65..95) returns the buffer with the same bytes and
\* length, attaches nothing, allocates nothing and delivers nothing.
C1_DeclineHasNoEffect ==
    [][ (ev'.op = "parse" /\ Declines(ev'.din)) =>
            /\ ev'.ret = ev'.din
            /\ bufs' = bufs
            /\ proto' = proto
            /\ rtpHeap' = rtpHeap
            /\ encHeap' = encHeap
            /\ delivered' = delivered
            /\ aborted' = aborted ]_vars

C1_Witness ==
    /\ ev.op = "parse"
    /\ Len(ev.din) >= 12
    /\ ev.din[1] \div 64 = 2
    /\ (ev.din[2] % 128) \in 65..95
    /\ ev.ret = ev.din
    /\ proto[ev.p] = NULL

\* C2: a dissect call that returns claims the buffer exactly when length >= 12,
\* version = 2 and payload type <= 64 or >= 96; it then returns the input minus
\* exactly its first 12 bytes; RTP data is attached iff the returned length is
\* the input length minus 12, and nothing is attached iff the length is unchanged.
C2_ClaimsExactlyAndStrips12 ==
    [][ (ev'.op = "parse" /\ ~aborted') =>
            LET d == ev'.din
                r == ev'.ret
                attached == proto[ev'.p] = NULL /\ proto'[ev'.p] # NULL
            IN  /\ ClaimedBy(d) <=> attached
                /\ ClaimedBy(d) => r = SubSeq(d, 13, Len(d))
                /\ bufs'[ev'.p].bytes = r
                /\ attached <=> Len(r) = Len(d) - 12
                /\ ~attached <=> Len(r) = Len(d) ]_vars

\* a 12 byte input with CSRC count, extension and padding bits all set
C2_Witness ==
    /\ ev.op = "parse"
    /\ Len(ev.din) = 12
    /\ ev.din[1] = 191
    /\ ev.ret = <<>>
    /\ proto[ev.p] # NULL
    /\ ~aborted

\* C3: after a successful dissect the stored fields are the big-endian values
\* of the header bytes: seq = bytes 2-3, ts = bytes 4-7, ssrc = bytes 8-11 (a
\* 32 bit value as its upper and lower 16 bits), the payload type code is the
\* low 7 bits of byte 1; the example header gives seq 1, ts 2, ssrc 3, code 0.
C3_FieldsAreBigEndian ==
    (ev.op = "parse" /\ ~aborted /\ ClaimedBy(ev.din)) =>
        /\ proto[ev.p] # NULL
        /\ LET d == ev.din
               r == rtpHeap[proto[ev.p]]
           IN  /\ r.seq = d[3] * 256 + d[4]
               /\ r.ts = [hi |-> d[5] * 256 + d[6], lo |-> d[7] * 256 + d[8]]
               /\ r.ssrc = [hi |-> d[9] * 256 + d[10], lo |-> d[11] * 256 + d[12]]
               /\ EncDeref(Mem, r.encoding).id = d[2] % 128
               /\ EncDeref(Mem, r.encoding).id = (IF d[2] >= 128 THEN d[2] - 128 ELSE d[2])
               /\ SubSeq(d, 1, 12) = <<128, 0, 0, 1, 0, 0, 0, 2, 0, 0, 0, 3>> =>
                      /\ r.seq = 1
                      /\ r.ts = [hi |-> 0, lo |-> 2]
                      /\ r.ssrc = [hi |-> 0, lo |-> 3]
                      /\ EncDeref(Mem, r.encoding).id = 0

C3_Witness ==
    /\ ev.op = "parse"
    /\ hostLE
    /\ ~aborted
    /\ Len(ev.din) >= 12
    /\ SubSeq(ev.din, 1, 12) = <<128, 0, 0, 1, 0, 0, 0, 2, 0, 0, 0, 3>>
    /\ proto[ev.p] # NULL
    /\ rtpHeap[proto[ev.p]].seq = 1
    /\ rtpHeap[proto[ev.p]].ts = [hi |-> 0, lo |-> 2]
    /\ rtpHeap[proto[ev.p]].ssrc = [hi |-> 0, lo |-> 3]

\* C4: on a successful dissect, a code that is an id of the encodings table
\* gets that table entry itself and nothing is allocated for it (code 0:
\* PCMU/8000, g711u, 8000); any other accepted code (all of 96..127, and 1, 2,
\* 19..24, 35..64) gets a freshly allocated descriptor with id = code and
\* name, format and clock empty.
C4_CodecResolution ==
    [][ (ev'.op = "parse" /\ ~aborted' /\ ClaimedBy(ev'.din)) =>
            /\ proto'[ev'.p] # NULL
            /\ LET code == ev'.din[2] % 128
                   enc == rtpHeap'[proto'[ev'.p]].encoding
               IN  /\ IF \E i \in 1..24 : encodings[i].id = code
                      THEN /\ enc.static
                           /\ enc.ix \in 1..24
                           /\ encodings[enc.ix].id = code
                           /\ encHeap' = encHeap
                      ELSE /\ ~enc.static
                           /\ enc.ix = Len(encHeap) + 1
                           /\ Len(encHeap') = Len(encHeap) + 1
                           /\ encHeap'[enc.ix] =
                                [id |-> code, name |-> NULLSTR, format |-> NULLSTR,
                                 clock |-> 0, freed |-> 0]
                   /\ code = 0 =>
                        /\ enc.static
                        /\ encodings[enc.ix] =
                             [id |-> 0, name |-> "PCMU/8000", format |-> "g711u",
                              clock |-> 8000]
                   /\ code \in (96..127) \cup {1, 2} \cup (19..24) \cup (35..64) =>
                        ~enc.static ]_vars

C4_Witness ==
    /\ ev.op = "parse"
    /\ ~aborted
    /\ Len(ev.din) >= 12
    /\ ev.din[2] % 128 = 100
    /\ proto[ev.p] # NULL
    /\ ~rtpHeap[proto[ev.p]].encoding.static
    /\ encHeap[rtpHeap[proto[ev.p]].encoding.ix].id = 100
    /\ encHeap[rtpHeap[proto[ev.p]].encoding.ix].name = NULLSTR

\* C5: storage_add_packet is called exactly once by a successful dissect call
\* and by no other call, and last: the packet it is given already has the
\* header removed, the payload reference set and the RTP data attached.
C5_DeliveryOnceAndLast ==
    [][ LET n == Len(delivered)
            success == ev'.op = "parse" /\ ~aborted' /\ ClaimedBy(ev'.din)
        IN  IF success
            THEN /\ Len(delivered') = n + 1
                 /\ SubSeq(delivered', 1, n) = delivered
                 /\ proto'[ev'.p] # NULL
                 /\ delivered'[n + 1] =
                      [p |-> ev'.p,
                       data |-> SubSeq(ev'.din, 13, Len(ev'.din)),
                       rtp |-> proto'[ev'.p],
                       payload |-> ev'.p]
            ELSE delivered' = delivered ]_vars

C5_Witness ==
    /\ ev.op = "parse"
    /\ Len(delivered) = 1
    /\ delivered[1].rtp # NULL
    /\ delivered[1].payload = ev.p
    /\ delivered[1].data = ev.ret
    /\ Len(ev.din) = Len(ev.ret) + 12

\* the RTP data objects that are live and reference buffer p
LiveRefs(p) == { i \in 1..Len(rtpHeap) : rtpHeap[i].payload = p /\ rtpHeap[i].freed = 0 }

\* C6: release frees a descriptor iff dissect allocated it: no entry of the
\* encodings table is ever handed to g_free, the lookup on the stored id gives
\* "not found" exactly for the heap descriptors (also after name, format and
\* clock were filled in), and a heap descriptor is freed exactly when the RTP
\* data that references it has been released.
C6_RelookupMatchesProvenance ==
    /\ staticFreed = {}
    /\ \A i \in 1..Len(rtpHeap) :
         LET enc == rtpHeap[i].encoding
         IN  /\ ReleaseFreesEncoding(Mem, enc) <=> ~enc.static
             /\ enc.static => \E j \in 1..24 : encodings[j].id = encodings[enc.ix].id
             /\ ~enc.static =>
                  /\ \A j \in 1..24 : encodings[j].id # encHeap[enc.ix].id
                  /\ (encHeap[enc.ix].freed > 0) <=> (rtpHeap[i].freed > 0)

\* a resolved dynamic descriptor was freed by its release, and a packet with a
\* static descriptor was released too
C6_Witness ==
    /\ ~ub
    /\ \E i \in 1..Len(rtpHeap) :
         /\ ~rtpHeap[i].encoding.static
         /\ rtpHeap[i].freed = 1
         /\ encHeap[rtpHeap[i].encoding.ix].freed = 1
         /\ encHeap[rtpHeap[i].encoding.ix].name # NULLSTR
    /\ \E i \in 1..Len(rtpHeap) :
         /\ rtpHeap[i].encoding.static
         /\ rtpHeap[i].freed = 1

\* C7: a Packet Record holds at most one RTP entry: once the slot is set no
\* step changes it, and a dissect call that would attach to a record whose slot
\* is set ends the process instead of attaching.
C7_AtMostOneRtpEntry ==
    [][ \A p \in Packets :
          proto[p] # NULL =>
            /\ proto'[p] = proto[p]
            /\ (ev'.op = "parse" /\ ev'.p = p /\ ClaimedBy(ev'.din)) =>
                 /\ aborted'
                 /\ delivered' = delivered ]_vars

\* the dissector ran a second time on a packet whose payload again looks like RTP
C7_Witness ==
    /\ aborted
    /\ ev.op = "parse"
    /\ ClaimedBy(ev.din)
    /\ proto[ev.p] # NULL
    /\ rtpHeap[proto[ev.p]].freed = 0
    /\ Len(rtpHeap) > proto[ev.p]

\* C8 as stated: release on a Packet Record with no RTP data is fatal and does
\* not return normally.
C8_ReleaseWithoutDataIsFatal ==
    (ev.op = "free" /\ proto[ev.p] = NULL) => aborted

\* C8 as amended: release on a Packet Record with no RTP data logs a critical
\* warning, frees nothing and changes nothing; it returns normally, and ends
\* the process only when GLib is set to make criticals fatal.
C8_ReleaseWithoutDataLogsAndReturns ==
    [][ (ev'.op = "free" /\ proto[ev'.p] = NULL) =>
            /\ ev'.log = "critical"
            /\ aborted' <=> fatalCriticals
            /\ UNCHANGED <<bufs, held, proto, rtpHeap, encHeap, staticFreed,
                           delivered, ub>> ]_vars

C8_Witness ==
    /\ ev.op = "free"
    /\ proto[ev.p] = NULL
    /\ ev.log = "critical"
    /\ ~fatalCriticals
    /\ ~aborted

\* C9: the RTP data of a successful dissect is freed exactly once: no object is
\* freed twice, no freed memory is used, and a released RTP data has its
\* dynamic descriptor freed with it.
C9_FreedExactlyOnce ==
    /\ ~ub
    /\ \A i \in 1..Len(rtpHeap) :
         /\ rtpHeap[i].freed <= 1
         /\ ~rtpHeap[i].encoding.static =>
              encHeap[rtpHeap[i].encoding.ix].freed = rtpHeap[i].freed

\* C10: the payload is the buffer held by reference, not a copy: a successful
\* dissect raises the buffer's reference count by exactly one, a declining one
\* leaves it unchanged, release lowers it by exactly one; the buffer is
\* deallocated exactly when the count reaches zero and never while a live RTP
\* data references it, whose payload is the buffer the dissect returned. As long
\* as no call has touched freed memory the count is the number of holders: the
\* caller, and each live RTP data referencing the buffer.
C10_PayloadHeldByReference ==
    [][ /\ \A p \in Packets :
             /\ bufs'[p].freed <=> (bufs'[p].refs = 0)
             /\ LiveRefs(p)' # {} => ~bufs'[p].freed
             /\ ~ub' => bufs'[p].refs =
                          (IF held'[p] THEN 1 ELSE 0) + Cardinality(LiveRefs(p)')
        /\ (ev'.op = "parse" /\ ~aborted' /\ ClaimedBy(ev'.din)) =>
             /\ bufs'[ev'.p].refs = bufs[ev'.p].refs + 1
             /\ rtpHeap'[proto'[ev'.p]].payload = ev'.p
             /\ bufs'[ev'.p].bytes = ev'.ret
        /\ (ev'.op = "parse" /\ Declines(ev'.din)) =>
             bufs'[ev'.p].refs = bufs[ev'.p].refs
        /\ (ev'.op = "free" /\ ~aborted' /\ proto[ev'.p] # NULL
              /\ ~bufs[ev'.p].freed) =>
             bufs'[ev'.p].refs = bufs[ev'.p].refs - 1 ]_vars

\* the caller dropped its reference first, the release of the RTP data dropped
\* the last one
C10_Witness ==
    /\ ev.op = "free"
    /\ ~ub
    /\ ~held[ev.p]
    /\ proto[ev.p] # NULL
    /\ rtpHeap[proto[ev.p]].freed = 1
    /\ bufs[ev.p].freed
    /\ bufs[ev.p].refs = 0

====
